---- MODULE Spec2Model ----
(***************************************************************************)
(* Stream operators over Go channels (package channels): Map, MapUntil,    *)
(* Flatten, FlattenUntil, Bind, BindUntil, Take, TakeUntil, Aggregate.     *)
(* One operator invocation is modelled: its outer goroutine, the drain     *)
(* goroutines it spawns, its sync.WaitGroup, the unbuffered output channel *)
(* and the consumer of that channel.  The producers of the input channel   *)
(* and of the inner channels are the environment.  A second invocation,    *)
(* fed by the output of the first, is kept in one record (down).           *)
(*                                                                         *)
(* Every goroutine body is an operator from a state record to the set of   *)
(* states one step of that goroutine can lead to (a Go select with several *)
(* ready cases has several successors).  The actions apply these           *)
(* operators to the current state.                                         *)
(***************************************************************************)
EXTENDS Integers, Sequences, FiniteSets

\* Bounds of the model: number of items on the input channel, and number of
\* values an inner channel carries before its producer stops.
MaxInner == 2
MaxLen == 2

\* elementCount of the tests (100 there): the number of values of the source
\* of the cancellation tests.
ElementCount == 4

Streams == 1..MaxInner

\* "Bind" is Bind of the current operators file; "BindSeq" is Bind of
\* src/operators.go, which drains each inner channel in the outer loop.
FanInOps == {"Flatten", "FlattenUntil", "Bind", "BindUntil", "BindSeq"}
MapOps == {"Map", "MapUntil"}
Ops == FanInOps \cup MapOps
UntilOps == {"FlattenUntil", "BindUntil", "MapUntil"}
PlainOps == {"Flatten", "Bind", "Map"}
SpawningOps == {"Flatten", "FlattenUntil", "Bind", "BindUntil"}
\* The one-stage operators besides Map and MapUntil.
StageOps == {"Take", "TakeUntil", "Aggregate"}
\* The operators that take a done channel.
CancellableOps == UntilOps \cup {"TakeUntil"}
AllOps == Ops \cup StageOps
\* The channels of the cancellation tests: one Just per value of the source.
TestStreams == 1..ElementCount

VARIABLES
    op,         \* the operator invoked
    nsrc,       \* number of items the producer of ch sends before it stops
    ilen,       \* ilen[k]: number of values the producer of inner channel k sends
    done,       \* the done channel is closed (cancellation fired)
    stopped,    \* the consumer has abandoned the output channel
    srcClosed,  \* ch is closed
    iclosed,    \* iclosed[k]: inner channel k is closed
    opc,        \* location of the operator's outer goroutine
    opos,       \* number of items received from ch
    val,        \* loop variable `value` of the outer loop
    cur,        \* loop variable `inner` of the outer loop (0: none)
    wait,       \* counter of the sync.WaitGroup
    fcalls,     \* number of calls of the transform function f
    nclose,     \* number of close(out) executed
    panicked,   \* the program panicked (send on closed channel, negative WaitGroup counter)
    tpc,        \* tpc[k]: location of the drain goroutine spawned for item k
    ipos,       \* ipos[k]: number of values received from inner channel k
    held,       \* held[g]: value goroutine g has received and not yet sent (0: outer goroutine)
    got,        \* got[k]: positions of the values of stream k the consumer received, in order of receipt
    count,      \* parameter count of Take
    seen,       \* local variable seen of Take
    result,     \* local variable result of Aggregate
    actualCount,\* the consumer's counter of values received
    cancelAt,   \* cancelAtCount of the consumer of the cancellation tests (0: no such consumer)
    cpc,        \* location of the consumer: "recv" (at its receive), "cancel" (at cancel())
    down,       \* the invocation fed by this one's output (a record of these fields), if any
    feed        \* the values received from the invocation upstream, in order of receipt

vars == <<op, nsrc, ilen, done, stopped, srcClosed, iclosed, opc, opos, val, cur,
          wait, fcalls, nclose, panicked, tpc, ipos, held, got,
          count, seen, result, actualCount, cancelAt, cpc, down, feed>>

St == [op |-> op, nsrc |-> nsrc, ilen |-> ilen, done |-> done, stopped |-> stopped,
       srcClosed |-> srcClosed, iclosed |-> iclosed, opc |-> opc, opos |-> opos,
       val |-> val, cur |-> cur, wait |-> wait, fcalls |-> fcalls, nclose |-> nclose,
       panicked |-> panicked, tpc |-> tpc, ipos |-> ipos, held |-> held, got |-> got,
       count |-> count, seen |-> seen, result |-> result, actualCount |-> actualCount,
       cancelAt |-> cancelAt, cpc |-> cpc, down |-> down, feed |-> feed]

Upd(t) ==
    /\ op' = t.op /\ nsrc' = t.nsrc /\ ilen' = t.ilen /\ done' = t.done
    /\ stopped' = t.stopped /\ srcClosed' = t.srcClosed /\ iclosed' = t.iclosed
    /\ opc' = t.opc /\ opos' = t.opos /\ val' = t.val /\ cur' = t.cur
    /\ wait' = t.wait /\ fcalls' = t.fcalls /\ nclose' = t.nclose
    /\ panicked' = t.panicked /\ tpc' = t.tpc /\ ipos' = t.ipos
    /\ held' = t.held /\ got' = t.got
    /\ count' = t.count /\ seen' = t.seen /\ result' = t.result
    /\ actualCount' = t.actualCount /\ cancelAt' = t.cancelAt /\ cpc' = t.cpc
    /\ down' = t.down /\ feed' = t.feed

-----------------------------------------------------------------------------
(* Values.  A value in flight is identified by the stream it comes from    *)
(* (0: the input channel ch itself) and its position in that stream.       *)

NoVal == [src |-> 0, idx |-> 0]

\* IntRange(bufferSize, 0, n): the k-th item of ch is k - 1.
SrcValue(k) == k - 1

\* The transform of the Bind tests: f(x) returns a fresh channel, the one of
\* item x + 1; channels are named by the item they were made for.
F(x) == x + 1

\* Repeat(0, x+1, x+1): every value of inner channel k is k.
ValueOf(k, j) == k

\* double of the Map tests.
Double(x) == x * 2

\* fmt.Sprint(n) for n >= 0: the decimal digits of n.
RECURSIVE Sprint(_)
Sprint(n) == IF n < 10 THEN <<n>> ELSE Append(Sprint(n \div 10), n % 10)

\* strconv.Atoi of a string of decimal digits.
RECURSIVE Atoi(_)
Atoi(x) == IF Len(x) = 0 THEN 0 ELSE 10 * Atoi(SubSeq(x, 1, Len(x) - 1)) + x[Len(x)]

\* StringIntRange(bufferSize, 1, n): the k-th item of ch is the string of k.
StrSrcValue(k) == Sprint(k)

\* addLength of the Aggregate test.
AddLength(x, sum) == sum + Atoi(x)

\* The datum the consumer sees for a delivered entry.
ValOf(e) == IF e.src = 0 THEN Double(SrcValue(e.idx)) ELSE ValueOf(e.src, e.idx)

-----------------------------------------------------------------------------
(* Channel and WaitGroup primitives.                                       *)

\* `v, ok := <-ch` with ok: the producer of ch has a further item.
SrcReady(s) == s.opos < s.nsrc
\* `v, ok := <-ch` with !ok.
SrcAtEnd(s) == s.opos = s.nsrc /\ s.srcClosed

InnerReady(s, j) == j \in DOMAIN s.ipos /\ s.ipos[j] < s.ilen[j]
InnerAtEnd(s, j) == j \in DOMAIN s.ipos /\ s.ipos[j] = s.ilen[j] /\ s.iclosed[j]

\* The consumer's loop body: actualCount++, and the consumer of the
\* cancellation tests goes on to cancel() when the count is cancelAtCount.
ConsumerCounts(s) ==
    [s EXCEPT !.actualCount = @ + 1,
              !.cpc = IF s.actualCount + 1 = s.cancelAt THEN "cancel" ELSE "recv"]

\* `out <- v` by goroutine g: a rendezvous with the consumer at its receive,
\* which records the value; on a closed channel the send panics.  The result
\* is the set of states right after the send (the sender's location is the
\* caller's).
SendOut(s, g) ==
    IF s.nclose > 0
    THEN {[s EXCEPT !.panicked = TRUE]}
    ELSE IF s.stopped \/ s.cpc # "recv"
         THEN {}
         ELSE {ConsumerCounts([s EXCEPT !.got[s.held[g].src] = Append(@, s.held[g].idx),
                                        !.held[g] = NoVal])}

\* wait.Add(1)
WaitAdd(s) == [s EXCEPT !.wait = @ + 1]

\* wait.Done(): panics when the counter goes negative.
WaitDone(s) ==
    IF s.wait = 0 THEN [s EXCEPT !.panicked = TRUE] ELSE [s EXCEPT !.wait = @ - 1]

\* close(out): panics on a closed channel.
CloseOut(s) ==
    IF s.nclose > 0 THEN [s EXCEPT !.panicked = TRUE] ELSE [s EXCEPT !.nclose = @ + 1]

\* Variant: one `inner` shared by all iterations (loop variables before Go
\* 1.22); the goroutine then reads the channel of the latest item received.
LoopVarInner_Shared(s, k) == s.opos

\* The channel the drain goroutine of Flatten spawned for item k receives
\* from.  Its body names the loop variable `inner`, not its parameter ch2; the
\* tests need Go 1.22 (math/rand/v2), where each iteration has its own `inner`.
LoopVarInner(s, k) == k

-----------------------------------------------------------------------------
(* Drain goroutines.  Locations: "none" (not spawned), "recv" (at the      *)
(* receive from the inner channel), "send" (at out <- value), "done"       *)
(* (returned, deferred wait.Done() executed).                              *)

\* Variant: the loop body receives once more before it sends.
DrainTakeValue_DoubleReceive(s, k, j) ==
    [s EXCEPT !.ipos[j] = @ + 2,
              !.held[k] = [src |-> j, idx |-> s.ipos[j] + 2],
              !.tpc[k] = "send"]

DrainTakeValue(s, k, j) ==
    [s EXCEPT !.ipos[j] = @ + 1,
              !.held[k] = [src |-> j, idx |-> s.ipos[j] + 1],
              !.tpc[k] = "send"]

\* Variant: a non-blocking send (select with a default case) drops the value
\* when the consumer is not at its receive.
DrainSent_NonBlocking(s, k) ==
    {IF t.panicked THEN t ELSE [t EXCEPT !.tpc[k] = "recv"] : t \in SendOut(s, k)}
    \cup {[s EXCEPT !.held[k] = NoVal, !.tpc[k] = "recv"]}

DrainSent(s, k) ==
    {IF t.panicked THEN t ELSE [t EXCEPT !.tpc[k] = "recv"] : t \in SendOut(s, k)}

\* Variant: the goroutine returns without wait.Done().
DrainReturn_NoDone(s, k) == [s EXCEPT !.tpc[k] = "done"]

\* return, with the deferred wait.Done()
DrainReturn(s, k) == [WaitDone(s) EXCEPT !.tpc[k] = "done"]

\* Variant: the drain loop has no `case <-done`.
SelectDrain_NoDoneCase(s, k) ==
    CASE s.tpc[k] = "recv" ->
            (IF InnerReady(s, k) THEN {DrainTakeValue(s, k, k)} ELSE {})
            \cup (IF InnerAtEnd(s, k) THEN {DrainReturn(s, k)} ELSE {})
      [] s.tpc[k] = "send" -> DrainSent(s, k)
      [] OTHER -> {}

\* Variant: the send is raced against done
\* (select { case out <- value: case <-done: return }).
SelectDrain_SendRacesDone(s, k) ==
    CASE s.tpc[k] = "recv" ->
            (IF s.done THEN {DrainReturn(s, k)} ELSE {})
            \cup (IF InnerReady(s, k) THEN {DrainTakeValue(s, k, k)} ELSE {})
            \cup (IF InnerAtEnd(s, k) THEN {DrainReturn(s, k)} ELSE {})
      [] s.tpc[k] = "send" ->
            DrainSent(s, k)
            \cup (IF s.done THEN {DrainReturn([s EXCEPT !.held[k] = NoVal], k)} ELSE {})
      [] OTHER -> {}

\* for value := range <channel j> { out <- value }, with defer wait.Done()
RangeDrain(s, k, j) ==
    CASE s.tpc[k] = "recv" ->
            (IF InnerReady(s, j) THEN {DrainTakeValue(s, k, j)} ELSE {})
            \cup (IF InnerAtEnd(s, j) THEN {DrainReturn(s, k)} ELSE {})
      [] s.tpc[k] = "send" -> DrainSent(s, k)
      [] OTHER -> {}

\* for { select { case <-done: return
\*               case value, ok := <-ch2: if !ok { return }; out <- value } }
SelectDrain(s, k) ==
    CASE s.tpc[k] = "recv" ->
            (IF s.done THEN {DrainReturn(s, k)} ELSE {})
            \cup (IF InnerReady(s, k) THEN {DrainTakeValue(s, k, k)} ELSE {})
            \cup (IF InnerAtEnd(s, k) THEN {DrainReturn(s, k)} ELSE {})
      [] s.tpc[k] = "send" -> DrainSent(s, k)
      [] OTHER -> {}

FlattenDrain(s, k) == RangeDrain(s, k, LoopVarInner(s, k))
\* Variant: the goroutine ranges over the channel of the latest item.
BindDrain_LatestInner(s, k) == RangeDrain(s, k, s.opos)

BindDrain(s, k) == RangeDrain(s, k, k)
\* Variant: FlattenUntil's drain goroutine races its send against done.
FlattenUntilDrain_SendRacesDone(s, k) == SelectDrain_SendRacesDone(s, k)

FlattenUntilDrain(s, k) == SelectDrain(s, k)
BindUntilDrain(s, k) == SelectDrain(s, k)

-----------------------------------------------------------------------------
(* Outer goroutines.  Locations: "recv" (at the receive from ch), "call"   *)
(* (at inner := f(value)), "add" (at wait.Add(1)), "go" (at the go         *)
(* statement), "irecv" and "send" (operators that send themselves),        *)
(* "wait" (at wait.Wait()), "close" (deferred close(out) pending), "end".  *)

\* Variant: no wait.Wait() before the deferred close(out).
JoinAndClose_NoWait(s) ==
    CASE s.opc = "wait" -> {[s EXCEPT !.opc = "close"]}
      [] s.opc = "close" -> {[CloseOut(s) EXCEPT !.opc = "end"]}
      [] OTHER -> {}

\* wait.Wait() followed by the deferred close(out).
JoinAndClose(s) ==
    CASE s.opc = "wait" -> IF s.wait = 0 THEN {[s EXCEPT !.opc = "close"]} ELSE {}
      [] s.opc = "close" -> {[CloseOut(s) EXCEPT !.opc = "end"]}
      [] OTHER -> {}

\* Variant: the go statement comes first, wait.Add(1) after it.
AddAndSpawn_SpawnThenAdd(s) ==
    CASE s.opc = "add" -> {[s EXCEPT !.tpc[s.cur] = "recv", !.opc = "go"]}
      [] s.opc = "go" -> {[WaitAdd(s) EXCEPT !.cur = 0, !.opc = "recv"]}
      [] OTHER -> {}

\* wait.Add(1); go func(ch2) {...}(inner): the goroutine given channel
\* `inner` starts at its receive; goroutines are named by that channel.
AddAndSpawn(s) ==
    CASE s.opc = "add" -> {[WaitAdd(s) EXCEPT !.opc = "go"]}
      [] s.opc = "go" -> {[s EXCEPT !.tpc[s.cur] = "recv", !.cur = 0, !.opc = "recv"]}
      [] OTHER -> {}

\* item of a channel of channels: the channel made for item opos + 1
RecvInner(s) == [s EXCEPT !.opos = @ + 1, !.cur = s.opos + 1, !.opc = "add"]

\* item of a channel of values
RecvValue(s) == [s EXCEPT !.opos = @ + 1, !.val = SrcValue(s.opos + 1), !.opc = "call"]

\* Variant: f is invoked a second time for the go statement.
CallF_Twice(s, next) == [s EXCEPT !.cur = F(s.val), !.fcalls = @ + 2, !.opc = next]

\* inner := f(value)
CallF(s, next) == [s EXCEPT !.cur = F(s.val), !.fcalls = @ + 1, !.opc = next]

Flatten(s) ==
    CASE s.opc = "recv" ->
            (IF SrcReady(s) THEN {RecvInner(s)} ELSE {})
            \cup (IF SrcAtEnd(s) THEN {[s EXCEPT !.opc = "wait"]} ELSE {})
      [] s.opc \in {"add", "go"} -> AddAndSpawn(s)
      [] OTHER -> JoinAndClose(s)

\* Variant: `case <-done: return`, which skips wait.Wait().
FlattenUntil_ReturnOnDone(s) ==
    CASE s.opc = "recv" ->
            (IF s.done THEN {[s EXCEPT !.opc = "close"]} ELSE {})
            \cup (IF SrcReady(s) THEN {RecvInner(s)} ELSE {})
            \cup (IF SrcAtEnd(s) THEN {[s EXCEPT !.opc = "wait"]} ELSE {})
      [] s.opc \in {"add", "go"} -> AddAndSpawn(s)
      [] OTHER -> JoinAndClose(s)

FlattenUntil(s) ==
    CASE s.opc = "recv" ->
            (IF s.done THEN {[s EXCEPT !.opc = "wait"]} ELSE {})
            \cup (IF SrcReady(s) THEN {RecvInner(s)} ELSE {})
            \cup (IF SrcAtEnd(s) THEN {[s EXCEPT !.opc = "wait"]} ELSE {})
      [] s.opc \in {"add", "go"} -> AddAndSpawn(s)
      [] OTHER -> JoinAndClose(s)

Bind(s) ==
    CASE s.opc = "recv" ->
            (IF SrcReady(s) THEN {RecvValue(s)} ELSE {})
            \cup (IF SrcAtEnd(s) THEN {[s EXCEPT !.opc = "wait"]} ELSE {})
      [] s.opc = "call" -> {CallF(s, "add")}
      [] s.opc \in {"add", "go"} -> AddAndSpawn(s)
      [] OTHER -> JoinAndClose(s)

\* Variant: `case <-done: break`, which leaves the select, not the loop.
BindUntil_BreakSelectOnly(s) ==
    CASE s.opc = "recv" ->
            (IF SrcReady(s) THEN {RecvValue(s)} ELSE {})
            \cup (IF SrcAtEnd(s) THEN {[s EXCEPT !.opc = "wait"]} ELSE {})
      [] s.opc = "call" -> {CallF(s, "add")}
      [] s.opc \in {"add", "go"} -> AddAndSpawn(s)
      [] OTHER -> JoinAndClose(s)

\* Variant: `case <-done: return`, which skips wait.Wait().
BindUntil_ReturnOnDone(s) ==
    CASE s.opc = "recv" ->
            (IF s.done THEN {[s EXCEPT !.opc = "close"]} ELSE {})
            \cup (IF SrcReady(s) THEN {RecvValue(s)} ELSE {})
            \cup (IF SrcAtEnd(s) THEN {[s EXCEPT !.opc = "wait"]} ELSE {})
      [] s.opc = "call" -> {CallF(s, "add")}
      [] s.opc \in {"add", "go"} -> AddAndSpawn(s)
      [] OTHER -> JoinAndClose(s)

BindUntil(s) ==
    CASE s.opc = "recv" ->
            (IF s.done THEN {[s EXCEPT !.opc = "wait"]} ELSE {})
            \cup (IF SrcReady(s) THEN {RecvValue(s)} ELSE {})
            \cup (IF SrcAtEnd(s) THEN {[s EXCEPT !.opc = "wait"]} ELSE {})
      [] s.opc = "call" -> {CallF(s, "add")}
      [] s.opc \in {"add", "go"} -> AddAndSpawn(s)
      [] OTHER -> JoinAndClose(s)

\* Bind of src/operators.go: no goroutine per inner channel, the outer loop
\* ranges over inner itself.
BindSeq(s) ==
    CASE s.opc = "recv" ->
            (IF SrcReady(s) THEN {RecvValue(s)} ELSE {})
            \cup (IF SrcAtEnd(s) THEN {[s EXCEPT !.opc = "close"]} ELSE {})
      [] s.opc = "call" -> {CallF(s, "irecv")}
      [] s.opc = "irecv" ->
            (IF InnerReady(s, s.cur)
             THEN {[s EXCEPT !.ipos[s.cur] = @ + 1,
                             !.held[0] = [src |-> s.cur, idx |-> s.ipos[s.cur] + 1],
                             !.opc = "send"]}
             ELSE {})
            \cup (IF InnerAtEnd(s, s.cur) THEN {[s EXCEPT !.cur = 0, !.opc = "recv"]} ELSE {})
      [] s.opc = "send" ->
            {IF t.panicked THEN t ELSE [t EXCEPT !.opc = "irecv"] : t \in SendOut(s, 0)}
      [] OTHER -> JoinAndClose(s)

\* Variant: the loop body receives once more (for range ch { value := <-ch }).
MapTake_DoubleReceive(s) ==
    [s EXCEPT !.opos = @ + 2, !.val = SrcValue(s.opos + 2), !.fcalls = @ + 1,
              !.held[0] = [src |-> 0, idx |-> s.opos + 2], !.opc = "send"]

\* value received from ch, f(value) evaluated for the send statement
MapTake(s) ==
    [s EXCEPT !.opos = @ + 1, !.val = SrcValue(s.opos + 1), !.fcalls = @ + 1,
              !.held[0] = [src |-> 0, idx |-> s.opos + 1], !.opc = "send"]

Map(s) ==
    CASE s.opc = "recv" ->
            (IF SrcReady(s) THEN {MapTake(s)} ELSE {})
            \cup (IF SrcAtEnd(s) THEN {[s EXCEPT !.opc = "close"]} ELSE {})
      [] s.opc = "send" ->
            {IF t.panicked THEN t ELSE [t EXCEPT !.opc = "recv"] : t \in SendOut(s, 0)}
      [] OTHER -> JoinAndClose(s)

\* Variant: `case value := <-ch` without the ok check; the loop does not end
\* when ch is closed.
MapUntil_NoCloseCheck(s) ==
    CASE s.opc = "recv" ->
            (IF s.done THEN {[s EXCEPT !.opc = "close"]} ELSE {})
            \cup (IF SrcReady(s) THEN {MapTake(s)} ELSE {})
      [] s.opc = "send" ->
            {IF t.panicked THEN t ELSE [t EXCEPT !.opc = "recv"] : t \in SendOut(s, 0)}
      [] OTHER -> JoinAndClose(s)

MapUntil(s) ==
    CASE s.opc = "recv" ->
            (IF s.done THEN {[s EXCEPT !.opc = "close"]} ELSE {})
            \cup (IF SrcReady(s) THEN {MapTake(s)} ELSE {})
            \cup (IF SrcAtEnd(s) THEN {[s EXCEPT !.opc = "close"]} ELSE {})
      [] s.opc = "send" ->
            {IF t.panicked THEN t ELSE [t EXCEPT !.opc = "recv"] : t \in SendOut(s, 0)}
      [] OTHER -> JoinAndClose(s)

\* value received from ch, to be sent as it is
TakeValue(s) ==
    [s EXCEPT !.opos = @ + 1, !.val = SrcValue(s.opos + 1),
              !.held[0] = [src |-> 0, idx |-> s.opos + 1], !.opc = "send"]

\* Variant: the quota is tested before seen++.
TakeCounted_TestFirst(s) ==
    [s EXCEPT !.seen = @ + 1, !.opc = IF s.seen = s.count THEN "close" ELSE "recv"]

\* seen++; if seen == count { return }
TakeCounted(s) ==
    [s EXCEPT !.seen = @ + 1, !.opc = IF s.seen + 1 = s.count THEN "close" ELSE "recv"]

\* Empty(): a channel made and closed.
Empty(s) == [CloseOut(s) EXCEPT !.opc = "end"]

\* Variant: the quota is tested at the top of the loop body, after the
\* receive (for value := range ch { if seen == count { return }; ... }).
Take_TestAfterReceive(s) ==
    CASE s.opc = "init" ->
            IF s.count = 0 THEN {Empty(s)} ELSE {[s EXCEPT !.seen = 0, !.opc = "recv"]}
      [] s.opc = "recv" ->
            (IF SrcReady(s)
             THEN {IF s.seen = s.count
                   THEN [s EXCEPT !.opos = @ + 1, !.opc = "close"]
                   ELSE TakeValue(s)}
             ELSE {})
            \cup (IF SrcAtEnd(s) THEN {[s EXCEPT !.opc = "close"]} ELSE {})
      [] s.opc = "send" ->
            {IF t.panicked THEN t ELSE [t EXCEPT !.seen = @ + 1, !.opc = "recv"] :
                t \in SendOut(s, 0)}
      [] OTHER -> JoinAndClose(s)

\* Take starts at "init", the test of count; Take(ch, 0) is Empty(), with no
\* goroutine.
Take(s) ==
    CASE s.opc = "init" ->
            IF s.count = 0 THEN {Empty(s)} ELSE {[s EXCEPT !.seen = 0, !.opc = "recv"]}
      [] s.opc = "recv" ->
            (IF SrcReady(s) THEN {TakeValue(s)} ELSE {})
            \cup (IF SrcAtEnd(s) THEN {[s EXCEPT !.opc = "close"]} ELSE {})
      [] s.opc = "send" ->
            {IF t.panicked THEN t ELSE TakeCounted(t) : t \in SendOut(s, 0)}
      [] OTHER -> JoinAndClose(s)

\* Variant: the loop ranges over ch, without the select on done.
TakeUntil_NoDoneCase(s) ==
    CASE s.opc = "recv" ->
            (IF SrcReady(s) THEN {TakeValue(s)} ELSE {})
            \cup (IF SrcAtEnd(s) THEN {[s EXCEPT !.opc = "close"]} ELSE {})
      [] s.opc = "send" ->
            {IF t.panicked THEN t ELSE [t EXCEPT !.opc = "recv"] : t \in SendOut(s, 0)}
      [] OTHER -> JoinAndClose(s)

TakeUntil(s) ==
    CASE s.opc = "recv" ->
            (IF s.done THEN {[s EXCEPT !.opc = "close"]} ELSE {})
            \cup (IF SrcReady(s) THEN {TakeValue(s)} ELSE {})
            \cup (IF SrcAtEnd(s) THEN {[s EXCEPT !.opc = "close"]} ELSE {})
      [] s.opc = "send" ->
            {IF t.panicked THEN t ELSE [t EXCEPT !.opc = "recv"] : t \in SendOut(s, 0)}
      [] OTHER -> JoinAndClose(s)

\* The accumulator function f and the seed.  f is left uninterpreted: its
\* result is the list of the items folded, written as a decimal numeral with
\* one digit per item, an item being named by its place in ch (fewer than ten
\* places); the seed is the empty list.
Seed == 0
Accumulate(value, r) == r * 10 + value

\* Variant: result = f(value, seed).
AggregateFold_FromSeed(s) ==
    [s EXCEPT !.opos = @ + 1, !.val = s.opos + 1, !.result = Accumulate(s.opos + 1, Seed)]

\* result = f(value, result) for the item received
AggregateFold(s) ==
    [s EXCEPT !.opos = @ + 1, !.val = s.opos + 1, !.result = Accumulate(s.opos + 1, s.result)]

\* The value sent is result itself.
Aggregate(s) ==
    CASE s.opc = "recv" ->
            (IF SrcReady(s) THEN {AggregateFold(s)} ELSE {})
            \cup (IF SrcAtEnd(s)
                  THEN {[s EXCEPT !.held[0] = [src |-> 0, idx |-> s.result], !.opc = "send"]}
                  ELSE {})
      [] s.opc = "send" ->
            {IF t.panicked THEN t ELSE [t EXCEPT !.opc = "close"] : t \in SendOut(s, 0)}
      [] OTHER -> JoinAndClose(s)

\* One step of the outer goroutine of the operator invoked.
Outer(s) ==
    IF s.panicked THEN {}
    ELSE CASE s.op = "Flatten" -> Flatten(s)
           [] s.op = "FlattenUntil" -> FlattenUntil(s)
           [] s.op = "Bind" -> Bind(s)
           [] s.op = "BindUntil" -> BindUntil(s)
           [] s.op = "BindSeq" -> BindSeq(s)
           [] s.op = "Map" -> Map(s)
           [] s.op = "MapUntil" -> MapUntil(s)
           [] s.op = "Take" -> Take(s)
           [] s.op = "TakeUntil" -> TakeUntil(s)
           [] s.op = "Aggregate" -> Aggregate(s)

\* One step of the drain goroutine spawned for item k.
Drain(s, k) ==
    IF s.panicked THEN {}
    ELSE CASE s.op = "Flatten" -> FlattenDrain(s, k)
           [] s.op = "FlattenUntil" -> FlattenUntilDrain(s, k)
           [] s.op = "Bind" -> BindDrain(s, k)
           [] s.op = "BindUntil" -> BindUntilDrain(s, k)
           [] OTHER -> {}

-----------------------------------------------------------------------------
(* Environment: the caller (cancellation), the consumer of out, and the    *)
(* producers of ch and of the inner channels.                              *)

\* cancel(): closes done.  Only the ...Until operators take a done channel.
CancelOf(s) ==
    IF s.op \in CancellableOps /\ ~s.done /\ ~s.panicked
    THEN {[s EXCEPT !.done = TRUE]} ELSE {}

\* cancel() of the consumer of the cancellation tests, which then goes back
\* to its receive.
ConsumerCancelOf(s) ==
    IF s.cpc = "cancel" /\ ~s.panicked
    THEN {[s EXCEPT !.done = TRUE, !.cpc = "recv"]} ELSE {}

\* The consumer leaves its `for range out` loop for good.
ConsumerStopOf(s) ==
    IF ~s.stopped /\ s.nclose = 0 /\ ~s.panicked THEN {[s EXCEPT !.stopped = TRUE]} ELSE {}

\* The producer of ch closes it after its last item was taken (defer close(ch)).
SrcCloseOf(s) ==
    IF ~s.srcClosed /\ s.opos = s.nsrc /\ ~s.panicked
    THEN {[s EXCEPT !.srcClosed = TRUE]} ELSE {}

\* The producer of inner channel k closes it after its last value was taken.
\* The channel exists once item k was handed to the operator.
InnerCloseOf(s, k) ==
    IF k <= s.opos /\ ~s.iclosed[k] /\ s.ipos[k] = s.ilen[k] /\ ~s.panicked
    THEN {[s EXCEPT !.iclosed[k] = TRUE]} ELSE {}

-----------------------------------------------------------------------------
\* No invocation downstream: the output goes to the consumer.
NoDown == [op |-> "none"]

\* The counts Take is invoked with: negative, zero, below, at and above the
\* length of the input.
Counts == (0 - 1)..(MaxInner + 1)

\* The state of an invocation of operator o on the channels 1..n, before its
\* first step.
Fresh(o, n) ==
    [op |-> o, nsrc |-> 0, ilen |-> [k \in 1..n |-> 0],
     done |-> FALSE, stopped |-> FALSE, srcClosed |-> FALSE,
     iclosed |-> [k \in 1..n |-> FALSE],
     opc |-> IF o = "Take" THEN "init" ELSE "recv", opos |-> 0, val |-> 0, cur |-> 0,
     wait |-> 0, fcalls |-> 0, nclose |-> 0, panicked |-> FALSE,
     tpc |-> [k \in 1..n |-> "none"], ipos |-> [k \in 1..n |-> 0],
     held |-> [g \in 0..n |-> NoVal], got |-> [k \in 0..n |-> <<>>],
     count |-> 0, seen |-> 0, result |-> Seed, actualCount |-> 0,
     cancelAt |-> 0, cpc |-> "recv", down |-> NoDown, feed |-> <<>>]

Init ==
    /\ op \in AllOps
    /\ nsrc \in 0..MaxInner
    /\ ilen \in [Streams -> 0..MaxLen]
    /\ \A k \in Streams : (k > nsrc \/ op \notin FanInOps) => ilen[k] = 0
    /\ count \in Counts
    /\ op # "Take" => count = 0
    /\ \E t \in {[Fresh(op, MaxInner) EXCEPT !.nsrc = nsrc, !.ilen = ilen, !.count = count]} :
          /\ done = t.done /\ stopped = t.stopped /\ srcClosed = t.srcClosed
          /\ iclosed = t.iclosed /\ opc = t.opc /\ opos = t.opos /\ val = t.val
          /\ cur = t.cur /\ wait = t.wait /\ fcalls = t.fcalls /\ nclose = t.nclose
          /\ panicked = t.panicked /\ tpc = t.tpc /\ ipos = t.ipos /\ held = t.held
          /\ got = t.got /\ seen = t.seen /\ result = t.result
          /\ actualCount = t.actualCount /\ cancelAt = t.cancelAt /\ cpc = t.cpc
          /\ down = t.down /\ feed = t.feed

OuterStep == \E t \in Outer(St) : Upd(t)
DrainStep(k) == \E t \in Drain(St, k) : Upd(t)
Cancel == \E t \in CancelOf(St) : Upd(t)
ConsumerStop == \E t \in ConsumerStopOf(St) : Upd(t)
SrcClose == \E t \in SrcCloseOf(St) : Upd(t)
InnerClose(k) == \E t \in InnerCloseOf(St, k) : Upd(t)

Next ==
    \/ OuterStep
    \/ \E k \in Streams : DrainStep(k)
    \/ Cancel
    \/ ConsumerStop
    \/ SrcClose
    \/ \E k \in Streams : InnerClose(k)

Spec == Init /\ [][Next]_vars

\* A step of the operator's own goroutines.
ProgramStep == OuterStep \/ \E k \in Streams : DrainStep(k)

\* The Go scheduler runs a goroutine that can take a step; the producers are
\* left free to stall and never close their channels.
CancelSpec == Init /\ [][Next]_vars /\ WF_vars(ProgramStep)

\* As CancelSpec, and every producer closes its channel after its last item.
LiveSpec ==
    /\ Init /\ [][Next]_vars
    /\ WF_vars(ProgramStep)
    /\ WF_vars(SrcClose)
    /\ \A k \in Streams : WF_vars(InnerClose(k))

-----------------------------------------------------------------------------
(* The cancellation tests: FlattenUntil(done, Map(IntRange, Just)),        *)
(* BindUntil(done, IntRange, Just) and TakeUntil(done, Infinite), each     *)
(* with a consumer that cancels when it has counted cancelAtCount values    *)
(* and goes on receiving.  The input of the fan-in operators carries       *)
(* ElementCount items, each a channel of one value (Just).  Infinite never *)
(* closes its channel; the model follows it for ElementCount + 1 values.   *)

\* cancelAtCount: rand.IntN(elementCount/4) + 1 in the tests of the fan-in
\* operators, rand.IntN(elementCount-20) + 20 < elementCount in the test of
\* TakeUntil.
CancelAtCounts(o) ==
    IF o = "TakeUntil" THEN 1..(ElementCount - 1) ELSE 1..(ElementCount \div 4)

TestOps == {"FlattenUntil", "BindUntil", "TakeUntil"}

TestFresh(o, k) ==
    [Fresh(o, ElementCount) EXCEPT
        !.nsrc = IF o = "TakeUntil" THEN ElementCount + 1 ELSE ElementCount,
        !.ilen = [j \in TestStreams |-> IF o = "TakeUntil" THEN 0 ELSE 1],
        !.cancelAt = k]

TestInit ==
    /\ op \in TestOps
    /\ cancelAt \in CancelAtCounts(op)
    /\ \E t \in {TestFresh(op, cancelAt)} :
          /\ nsrc = t.nsrc /\ ilen = t.ilen /\ count = t.count
          /\ done = t.done /\ stopped = t.stopped /\ srcClosed = t.srcClosed
          /\ iclosed = t.iclosed /\ opc = t.opc /\ opos = t.opos /\ val = t.val
          /\ cur = t.cur /\ wait = t.wait /\ fcalls = t.fcalls /\ nclose = t.nclose
          /\ panicked = t.panicked /\ tpc = t.tpc /\ ipos = t.ipos /\ held = t.held
          /\ got = t.got /\ seen = t.seen /\ result = t.result
          /\ actualCount = t.actualCount /\ cpc = t.cpc /\ down = t.down
          /\ feed = t.feed

\* IntRange closes its channel after its last value; Infinite has no close.
TestSrcCloseOf(s) == IF s.op = "TakeUntil" THEN {} ELSE SrcCloseOf(s)

ConsumerCancel == \E t \in ConsumerCancelOf(St) : Upd(t)
TestSrcClose == \E t \in TestSrcCloseOf(St) : Upd(t)
TestProgramStep == OuterStep \/ \E k \in TestStreams : DrainStep(k)

TestNext ==
    \/ OuterStep
    \/ \E k \in TestStreams : DrainStep(k)
    \/ ConsumerCancel
    \/ TestSrcClose
    \/ \E k \in TestStreams : InnerClose(k)

\* The scheduler runs a goroutine of the operator that can take a step, and
\* the consumer at its cancel(); the producers are left free to stall before
\* they close their channels.
TestSpec ==
    /\ TestInit /\ [][TestNext]_vars
    /\ WF_vars(TestProgramStep)
    /\ WF_vars(ConsumerCancel)

-----------------------------------------------------------------------------
(* The composition test: Bind(Bind(ch, f), g) with f(x) = Just(Sprint(x))  *)
(* and g(y) = Just(len(y)).  The variables hold the inner Bind, down the   *)
(* outer one, whose input channel is the output of the inner Bind: a send  *)
(* of the inner Bind is a rendezvous with the receive of the outer loop    *)
(* of down.  The consumer ranges over the output of down.                  *)

\* Just(value): the goroutine sends value and closes its channel (deferred).
\* Its send is InnerReady; this is its close.
JustClose(s, k) == InnerCloseOf(s, k)

\* The value Just(fmt.Sprint(x)) sends, x being item k of IntRange.
JustSprint(k) == Sprint(SrcValue(k))

\* The value Just(len(y)) sends.
JustLen(y) == Len(y)

\* The invocation downstream as its goroutines see it: its input channel is
\* closed when the output upstream is.
DownView(s) == [s.down EXCEPT !.srcClosed = s.nclose > 0]

\* The sends the goroutines upstream are at: the entry sent and the state
\* upstream right after the send.
UpSend(s) ==
    UNION {{<<s.held[k], t>> : t \in Drain(s, k)} : k \in {j \in DOMAIN s.tpc : s.tpc[j] = "send"}}
    \cup (IF s.opc = "send" THEN {<<s.held[0], t>> : t \in Outer(s)} ELSE {})

\* The outer loop of d receives entry e from its input channel.
DownRecv(d, e) ==
    {[t EXCEPT !.feed = Append(@, e)] :
        t \in {u \in Outer([d EXCEPT !.nsrc = @ + 1]) : u.opos = d.opos + 1}}

PipeInit ==
    /\ op = "Bind"
    /\ nsrc \in 0..MaxInner
    /\ \E t \in {[Fresh("Bind", MaxInner) EXCEPT
                    !.nsrc = nsrc,
                    !.ilen = [k \in Streams |-> IF k <= nsrc THEN 1 ELSE 0],
                    !.down = [Fresh("Bind", MaxInner) EXCEPT !.ilen = [k \in Streams |-> 1]]]} :
          /\ ilen = t.ilen /\ count = t.count
          /\ done = t.done /\ stopped = t.stopped /\ srcClosed = t.srcClosed
          /\ iclosed = t.iclosed /\ opc = t.opc /\ opos = t.opos /\ val = t.val
          /\ cur = t.cur /\ wait = t.wait /\ fcalls = t.fcalls /\ nclose = t.nclose
          /\ panicked = t.panicked /\ tpc = t.tpc /\ ipos = t.ipos /\ held = t.held
          /\ got = t.got /\ seen = t.seen /\ result = t.result
          /\ actualCount = t.actualCount /\ cancelAt = t.cancelAt /\ cpc = t.cpc
          /\ down = t.down /\ feed = t.feed

\* Steps upstream other than a send.
PipeUpOuter == \E t \in Outer(St) : t.actualCount = actualCount /\ Upd(t)
PipeUpDrain(k) == \E t \in Drain(St, k) : t.actualCount = actualCount /\ Upd(t)

\* A send upstream received by the outer loop downstream.
PipeHandoff ==
    \E p \in UpSend(St) :
        /\ p[2].actualCount = actualCount + 1
        /\ \E d \in DownRecv(DownView(St), p[1]) : Upd([p[2] EXCEPT !.down = d])

\* Steps downstream other than a receive from the input channel.
PipeDownOuter == \E d \in Outer(DownView(St)) : Upd([St EXCEPT !.down = d])
PipeDownDrain(j) == \E d \in Drain(DownView(St), j) : Upd([St EXCEPT !.down = d])

\* The closes of the Just goroutines, upstream and downstream.
PipeJustClose(k) == \E t \in JustClose(St, k) : Upd(t)
PipeDownJustClose(j) == \E d \in JustClose(down, j) : Upd([St EXCEPT !.down = d])

PipeProgramStep ==
    \/ PipeUpOuter
    \/ \E k \in Streams : PipeUpDrain(k)
    \/ PipeHandoff
    \/ PipeDownOuter
    \/ \E j \in Streams : PipeDownDrain(j)

PipeNext ==
    \/ PipeUpOuter
    \/ \E k \in Streams : PipeUpDrain(k)
    \/ PipeHandoff
    \/ PipeDownOuter
    \/ \E j \in Streams : PipeDownDrain(j)
    \/ SrcClose
    \/ \E k \in Streams : PipeJustClose(k)
    \/ \E j \in Streams : PipeDownJustClose(j)

\* The scheduler runs every goroutine that can take a step; IntRange and the
\* Just goroutines close their channels.
PipeSpec ==
    /\ PipeInit /\ [][PipeNext]_vars
    /\ WF_vars(PipeProgramStep)
    /\ WF_vars(SrcClose)
    /\ \A k \in Streams : WF_vars(PipeJustClose(k))
    /\ \A j \in Streams : WF_vars(PipeDownJustClose(j))

-----------------------------------------------------------------------------
(* The cancellation test of FlattenUntil with its whole pipeline:          *)
(* FlattenUntil(ctx.Done(), Map(IntRange(0, 0, elementCount), Just)).  The *)
(* variables hold Map, whose f is Just, and down holds FlattenUntil, whose *)
(* input channel is the output of Map; the consumer, with its count and    *)
(* its cancel(), is the consumer of down.  IntRange is at its send of item *)
(* opos + 1 until Map receives it, then at its close (srcClosed); the      *)
(* goroutine of Just for item j, started when Map calls f for it, is at    *)
(* its send until a drain goroutine of down receives the value, then at    *)
(* its close (down.iclosed[j]).                                            *)

CancelPipeInit ==
    /\ op = "Map"
    /\ cancelAt = 0
    /\ \E c \in CancelAtCounts("FlattenUntil") :
       \E t \in {[Fresh("Map", ElementCount) EXCEPT
                    !.nsrc = ElementCount,
                    !.down = [Fresh("FlattenUntil", ElementCount) EXCEPT
                                 !.ilen = [k \in TestStreams |-> 1],
                                 !.cancelAt = c]]} :
          /\ nsrc = t.nsrc /\ ilen = t.ilen /\ count = t.count
          /\ done = t.done /\ stopped = t.stopped /\ srcClosed = t.srcClosed
          /\ iclosed = t.iclosed /\ opc = t.opc /\ opos = t.opos /\ val = t.val
          /\ cur = t.cur /\ wait = t.wait /\ fcalls = t.fcalls /\ nclose = t.nclose
          /\ panicked = t.panicked /\ tpc = t.tpc /\ ipos = t.ipos /\ held = t.held
          /\ got = t.got /\ seen = t.seen /\ result = t.result
          /\ actualCount = t.actualCount /\ cpc = t.cpc
          /\ down = t.down /\ feed = t.feed

\* cancel() of the consumer, which ranges over the output of down.
CancelPipeConsumerCancel == \E d \in ConsumerCancelOf(down) : Upd([St EXCEPT !.down = d])

CancelPipeProgramStep ==
    \/ PipeUpOuter
    \/ PipeHandoff
    \/ PipeDownOuter
    \/ \E j \in TestStreams : PipeDownDrain(j)

CancelPipeNext ==
    \/ PipeUpOuter
    \/ PipeHandoff
    \/ PipeDownOuter
    \/ \E j \in TestStreams : PipeDownDrain(j)
    \/ CancelPipeConsumerCancel
    \/ SrcClose
    \/ \E j \in TestStreams : PipeDownJustClose(j)

\* The scheduler runs every goroutine that can take a step, the consumer,
\* IntRange and the goroutines of Just included.
CancelPipeSpec ==
    /\ CancelPipeInit /\ [][CancelPipeNext]_vars
    /\ WF_vars(CancelPipeProgramStep)
    /\ WF_vars(CancelPipeConsumerCancel)
    /\ WF_vars(SrcClose)
    /\ \A j \in TestStreams : WF_vars(PipeDownJustClose(j))

-----------------------------------------------------------------------------
(* Properties.                                                             *)

OutClosed == nclose > 0
Finished(k) == tpc[k] \in {"none", "done"}
Joined == opc \in {"wait", "close", "end"}

\* Occurrences of values on the output, and in the inner streams of the input.
OutOcc == UNION {{<<k, i>> : i \in 1..Len(got[k])} : k \in 0..MaxInner}
InOcc == UNION {{<<k, j>> : j \in 1..ilen[k]} : k \in 1..nsrc}
OutCount(v) == Cardinality({o \in OutOcc : ValOf([src |-> o[1], idx |-> got[o[1]][o[2]]]) = v})
InCount(v) == Cardinality({o \in InOcc : ValueOf(o[1], o[2]) = v})
SomeValues ==
    {ValOf([src |-> o[1], idx |-> got[o[1]][o[2]]]) : o \in OutOcc}
    \cup {ValueOf(o[1], o[2]) : o \in InOcc}

\* C1: without cancellation, when the output of a fan-in operator is closed
\* the values received on it are, as a multiset, the values of all inner
\* streams: as many as the inner streams hold, each value as often.
C1_Completeness ==
    (op \in FanInOps /\ OutClosed /\ ~done) =>
        /\ Cardinality(OutOcc) = Cardinality(InOcc)
        /\ \A v \in SomeValues : OutCount(v) = InCount(v)

C1_Witness ==
    /\ op \in SpawningOps /\ OutClosed /\ ~done
    /\ nsrc = MaxInner /\ \A k \in Streams : ilen[k] = MaxLen

\* C2: the values the consumer received from one inner stream were received
\* in the order the stream emitted them.
C2_PerSourceOrder ==
    op \in FanInOps =>
        \A k \in Streams : \A a, b \in 1..Len(got[k]) : a < b => got[k][a] < got[k][b]

C2_Witness ==
    /\ op \in SpawningOps
    /\ \A k \in Streams : Len(got[k]) = MaxLen

\* C3: when the output is closed the outer loop has exited, the join is over
\* and every drain goroutine registered has returned.
C3_CloseAfterJoin ==
    (op \in FanInOps /\ OutClosed) =>
        /\ opc = "end"
        /\ wait = 0
        /\ \A k \in Streams : Finished(k)

C3_Witness ==
    /\ op \in SpawningOps /\ OutClosed
    /\ \A k \in Streams : tpc[k] = "done"

\* C4: for Flatten and Bind, with producers that close their channels and a
\* consumer that keeps receiving, every drain goroutine eventually returns
\* and the output is eventually closed.
C4_ClosureLiveness ==
    (op \in {"Flatten", "Bind", "BindSeq"}) ~>
        (stopped \/ (OutClosed /\ \A k \in Streams : Finished(k)))

C4_Witness ==
    /\ op \in {"Flatten", "Bind"} /\ ~stopped /\ OutClosed
    /\ \A k \in Streams : tpc[k] = "done" /\ Len(got[k]) = MaxLen

\* C5: close(out) is executed at most once and never panics, no send on a
\* closed output happens, and once the output is closed no goroutine is at a
\* send or holds a value.
C5_NoDoubleCloseNoPostCloseSend ==
    op \in FanInOps =>
        /\ nclose <= 1
        /\ ~panicked
        /\ OutClosed =>
              /\ opc # "send"
              /\ \A k \in Streams : tpc[k] # "send"
              /\ \A g \in 0..MaxInner : held[g] = NoVal

C5_Witness ==
    /\ op \in {"FlattenUntil", "BindUntil"} /\ done /\ OutClosed
    /\ \E k \in Streams : Len(got[k]) > 0 /\ ipos[k] < ilen[k]

\* C6: for FlattenUntil and BindUntil, once done is closed and as long as the
\* consumer keeps receiving, every drain goroutine eventually returns and
\* the output is eventually closed, whether or not the producers ever close
\* their channels.
C6_CancellationLiveness ==
    (op \in {"FlattenUntil", "BindUntil"} /\ done) ~>
        (stopped \/ (OutClosed /\ \A k \in Streams : Finished(k)))

C6_Witness ==
    /\ op \in {"FlattenUntil", "BindUntil"} /\ done /\ ~stopped /\ OutClosed
    /\ \E k \in Streams : tpc[k] = "done" /\ ~iclosed[k]

\* Number of wait.Add(1) executed.
Registered == Cardinality({k \in Streams : tpc[k] # "none"}) + (IF opc = "go" THEN 1 ELSE 0)

\* C7 as claimed: once done is closed the outer loop takes no further item
\* from ch, registers no drain goroutine and calls f no more.
C7_NoRegistrationAfterCancel ==
    [][(op \in {"FlattenUntil", "BindUntil"} /\ done /\ opc = "recv")
          => (opos' = opos /\ Registered' = Registered /\ fcalls' = fcalls)]_vars

\* C7 as amended: after done is closed the select of the outer loop may still
\* take a ready item; the loop eventually takes the done case and is at the
\* join, and from the join on it takes no item, registers no drain goroutine
\* and calls f no more.
C7_NoRegistrationAfterObservedCancel ==
    /\ (op \in {"FlattenUntil", "BindUntil"} /\ done) ~> Joined
    /\ [][(op \in {"FlattenUntil", "BindUntil"} /\ Joined)
             => (Joined' /\ opos' = opos /\ Registered' = Registered /\ fcalls' = fcalls)]_vars

C7_Witness ==
    /\ op \in {"FlattenUntil", "BindUntil"} /\ done /\ Joined
    /\ opos < nsrc /\ Registered < nsrc

\* A drain goroutine holds a value at its send, done is closed and the
\* consumer is gone.
Hazard(k) == done /\ stopped /\ tpc[k] = "send"

\* C8: from a state where done is closed, the consumer has stopped and a
\* drain goroutine is at its send, that goroutine stays at its send, the
\* join never completes and the output is never closed.
C8_SendBlockingHazard ==
    /\ [](\A k \in Streams : Hazard(k) => (wait > 0 /\ ~OutClosed))
    /\ [][\A k \in Streams : Hazard(k) => Hazard(k)']_vars

C8_Witness ==
    /\ op \in {"FlattenUntil", "BindUntil"} /\ opc = "wait"
    /\ \E k \in Streams : Hazard(k)

Sibling(o) ==
    CASE o = "FlattenUntil" -> "Flatten"
      [] o = "BindUntil" -> "Bind"
      [] o = "MapUntil" -> "Map"
      [] o = "Flatten" -> "FlattenUntil"
      [] o = "Bind" -> "BindUntil"
      [] o = "Map" -> "MapUntil"
      [] OTHER -> o

\* The same state, of the sibling operator.
AsSibling(s) == [s EXCEPT !.op = Sibling(s.op)]

\* The states one step other than cancel() leads to.
Succ(s) ==
    Outer(s) \cup UNION {Drain(s, k) : k \in Streams}
    \cup ConsumerStopOf(s) \cup SrcCloseOf(s)
    \cup UNION {InnerCloseOf(s, k) : k \in Streams}

\* C9: as long as done is not closed, every step of FlattenUntil, BindUntil
\* or MapUntil is a step of Flatten, Bind or Map from the same state, and
\* every step of Flatten, Bind or Map is a step of the ...Until operator; so
\* the two deliver the same values and close the output in the same runs.
C9_UntilRefinesSibling ==
    [][/\ (op \in UntilOps /\ ~done') => AsSibling(St') \in Succ(AsSibling(St))
       /\ op \in PlainOps => AsSibling(St') \in Succ(AsSibling(St))]_vars

C9_Witness ==
    /\ op \in UntilOps /\ ~done /\ OutClosed
    /\ \E k \in 0..MaxInner : Len(got[k]) = MaxLen

\* The outputs of Bind of src/operators.go: nothing of an inner stream is
\* delivered before every earlier inner stream is drained and closed.
SequentialOrder ==
    \A k \in Streams : Len(got[k]) > 0 =>
        \A j \in 1..(k - 1) : Len(got[j]) = ilen[j] /\ iclosed[j]

\* C10: Bind delivers what Flatten of Map delivers; for Bind of
\* src/operators.go, whose deliveries are in SequentialOrder, this says that
\* the deliveries of Flatten are in SequentialOrder too.
C10_BindIsFlattenOfMap ==
    op \in {"BindSeq", "Flatten"} => SequentialOrder

\* C11 as claimed: in the cancellation tests of FlattenUntil and BindUntil,
\* when the output is closed the consumer has counted at least cancelAtCount
\* values and fewer than the source carries.
C11_CancelTestBound ==
    (op \in {"FlattenUntil", "BindUntil"} /\ cancelAt > 0 /\ OutClosed) =>
        (cancelAt <= actualCount /\ actualCount < nsrc)

\* C11 as amended: the consumer's iteration ends (the output is eventually
\* closed, without a panic), cancel() was called before that, and the
\* consumer has then counted at least cancelAtCount values and at most as
\* many as the source carries; all of them is possible.
C11_CancelTestTerminates ==
    /\ (op \in {"FlattenUntil", "BindUntil"} /\ cancelAt > 0) ~> OutClosed
    /\ []((op \in {"FlattenUntil", "BindUntil"} /\ cancelAt > 0) =>
            /\ ~panicked
            /\ OutClosed => (done /\ cancelAt <= actualCount /\ actualCount <= nsrc))

C11_Witness ==
    /\ op \in {"FlattenUntil", "BindUntil"} /\ cancelAt > 0 /\ OutClosed /\ done
    /\ actualCount = cancelAt /\ actualCount < nsrc
    /\ \E k \in TestStreams : tpc[k] = "done" /\ ipos[k] = 0

\* The input element the j-th item of the second Bind was made from.
Origin(j) == down.feed[j].src

\* The value the consumer receives from channel j of the second Bind:
\* g of f of that input element.
FinalValue(j) == JustLen(JustSprint(Origin(j)))

\* Sum of len(fmt.Sprint(x)) for x in 0..n.
RECURSIVE SumLens(_)
SumLens(n) == IF n < 0 THEN 0 ELSE SumLens(n - 1) + JustLen(Sprint(n))

\* Sum of the values the consumer has received.
RECURSIVE SumFinal(_)
SumFinal(j) == IF j = 0 THEN 0 ELSE SumFinal(j - 1) + Len(down.got[j]) * FinalValue(j)

\* C12: in Bind(Bind(ch, f), g) with f and g returning Just channels, when
\* the output is closed the consumer has received exactly one value per
\* input element x, namely g of f(x): every input element is the origin of
\* exactly one item of the second Bind and every such item delivered its one
\* value, so the values sum to the sum of len(Sprint(x)) over the input, which
\* is 190 for 0..99; no panic occurs, and the output is eventually closed.
C12_TwoStageBind ==
    /\ (down.op = "Bind") ~> (down.nclose > 0)
    /\ [](down.op = "Bind" =>
            /\ ~panicked /\ ~down.panicked
            /\ \A j \in 1..Len(down.feed) : Origin(j) \in 1..nsrc /\ down.feed[j].idx = 1
            /\ \A i, j \in 1..Len(down.feed) : Origin(i) = Origin(j) => i = j
            /\ \A j \in Streams : Len(down.got[j]) <= 1
            /\ down.nclose > 0 =>
                  /\ {Origin(j) : j \in 1..Len(down.feed)} = 1..nsrc
                  /\ \A j \in 1..nsrc : down.got[j] = <<1>>
                  /\ SumFinal(nsrc) = SumLens(SrcValue(nsrc))
                  /\ SumLens(99) = 190)

C12_Witness ==
    /\ down.op = "Bind" /\ down.nclose > 0 /\ nsrc = MaxInner
    /\ Origin(1) = MaxInner
    /\ \A j \in 1..nsrc : down.got[j] = <<1>>

Min(a, b) == IF a < b THEN a ELSE b

\* The first n places of a channel, in order.
FirstN(n) == [i \in 1..n |-> i]

\* C13: for count >= 0, Take(ch, count) delivers the first values of ch in
\* the order of ch, never more than min(count, L) of them, L being the number
\* of values ch carries; when its output is closed it has delivered exactly
\* min(count, L); and the output is eventually closed once ch is closed or
\* carries count values (an input that never closes), if the consumer keeps
\* receiving.
C13_TakeQuota ==
    /\ (op = "Take" /\ count >= 0 /\ (count <= nsrc \/ srcClosed)) ~> (stopped \/ OutClosed)
    /\ []((op = "Take" /\ count >= 0) =>
            /\ ~panicked
            /\ got[0] = FirstN(Len(got[0]))
            /\ Len(got[0]) <= Min(count, nsrc)
            /\ OutClosed => Len(got[0]) = Min(count, nsrc))

C13_Witness ==
    /\ op = "Take" /\ OutClosed /\ ~srcClosed
    /\ count = MaxInner - 1 /\ nsrc = MaxInner /\ got[0] = FirstN(count)

\* C14: Take never delivers more than count values, and none when count is
\* zero or negative.
C14_TakeUpperBound ==
    op = "Take" => Len(got[0]) <= (IF count < 0 THEN 0 ELSE count)

\* f folded from left to right, from the seed, over the first n values of ch.
RECURSIVE FoldLeft(_)
FoldLeft(n) == IF n = 0 THEN Seed ELSE Accumulate(n, FoldLeft(n - 1))

\* addLength folded from left to right, from 0, over the items of a result
\* of Accumulate: the items are the strings of StringIntRange.
RECURSIVE EvalAddLength(_)
EvalAddLength(r) ==
    IF r = 0 THEN 0 ELSE AddLength(StrSrcValue(r % 10), EvalAddLength(r \div 10))

\* C15: Aggregate delivers nothing before its input is closed and never more
\* than one value; the value is the fold of f, from left to right and from
\* the seed, over all values of the input in input order (for addLength over
\* the strings of 1..n: n(n+1)/2); with the output closed exactly one value
\* was delivered; and the output is eventually closed when the input closes
\* and the consumer keeps receiving.
C15_AggregateFold ==
    /\ (op = "Aggregate") ~> (stopped \/ OutClosed)
    /\ [](op = "Aggregate" =>
            /\ ~panicked
            /\ ~srcClosed => got[0] = <<>>
            /\ Len(got[0]) <= 1
            /\ Len(got[0]) = 1 =>
                  /\ got[0][1] = FoldLeft(nsrc)
                  /\ 2 * EvalAddLength(got[0][1]) = nsrc * (nsrc + 1)
            /\ OutClosed => Len(got[0]) = 1)

C15_Witness ==
    /\ op = "Aggregate" /\ OutClosed /\ nsrc = MaxInner
    /\ got[0] = <<FoldLeft(MaxInner)>>

\* C16: the values Map and MapUntil have delivered are f of the first values
\* of the input, in input order, f called once per value received; with the
\* output closed and no cancellation the input is closed and every value of
\* it was delivered; and the output is eventually closed when the input
\* closes and the consumer keeps receiving.
C16_MapPreservesOrder ==
    /\ (op \in MapOps) ~> (stopped \/ OutClosed)
    /\ [](op \in MapOps =>
            /\ ~panicked
            /\ got[0] = FirstN(Len(got[0]))
            /\ \A i \in 1..Len(got[0]) :
                  ValOf([src |-> 0, idx |-> got[0][i]]) = Double(SrcValue(i))
            /\ fcalls = opos
            /\ (OutClosed /\ ~done) => (srcClosed /\ Len(got[0]) = nsrc))

C16_Witness ==
    /\ op \in MapOps /\ OutClosed /\ ~done /\ nsrc = MaxInner
    /\ got[0] = FirstN(MaxInner)

\* C17 as stated: in the cancellation test of TakeUntil over a source that
\* never closes, the consumer cancelling at its k-th value (k < ElementCount),
\* the total received when the output is closed is at least k and less than
\* ElementCount.
C17_TakeUntilBound ==
    (op = "TakeUntil" /\ cancelAt > 0 /\ OutClosed) =>
        (cancelAt <= actualCount /\ actualCount < ElementCount)

\* C17: in that test the output is eventually closed, it is closed only
\* after the consumer has cancelled, without a panic, the values received
\* are the first values of the source in order, and their total is at least
\* k.
C17_TakeUntilTerminates ==
    /\ (op = "TakeUntil" /\ cancelAt > 0) ~> OutClosed
    /\ []((op = "TakeUntil" /\ cancelAt > 0) =>
            /\ ~panicked
            /\ actualCount = Len(got[0])
            /\ got[0] = FirstN(Len(got[0]))
            /\ OutClosed => (done /\ ~srcClosed /\ cancelAt <= actualCount))

C17_Witness ==
    /\ op = "TakeUntil" /\ OutClosed /\ done /\ ~srcClosed
    /\ cancelAt = ElementCount - 1 /\ actualCount = cancelAt

\* C18: in every version of Bind, when the input carries two items and the
\* inner stream of the second has a value, that value is eventually
\* delivered if the consumer keeps receiving, whether or not the inner
\* stream of the first item is ever closed.
C18_BindDrainsConcurrently ==
    (op \in {"Bind", "BindSeq"} /\ nsrc >= 2 /\ ilen[2] > 0)
        ~> (stopped \/ Len(got[2]) > 0)

\* What a step may do to the goroutine and the inner stream of item k.
TaskStep(k) ==
    /\ (tpc[k] = "none" /\ tpc'[k] # "none") =>
          (opc = "go" /\ cur = k /\ tpc'[k] = "recv")
    /\ tpc[k] # "none" => tpc'[k] # "none"
    /\ tpc[k] = "done" => tpc'[k] = "done"
    /\ ipos'[k] # ipos[k] =>
          (tpc[k] = "recv" /\ tpc'[k] = "send" /\ ipos'[k] = ipos[k] + 1)

TaskSteps == op \in SpawningOps => \A k \in Streams : TaskStep(k)

\* C19: in Flatten, FlattenUntil, Bind and BindUntil a drain goroutine holds
\* values of its own inner stream only, and every value taken from an inner
\* stream is held by the goroutine of that stream or was delivered; only
\* inner streams received have a goroutine, and every inner stream received
\* has one, but for the one the outer loop is about to spawn; a goroutine
\* is started only by the go statement for the stream just received, from
\* no goroutine to one at its receive, and one that returned stays returned.
C19_OneTaskPerInner ==
    /\ [](op \in SpawningOps =>
            \A k \in Streams :
               /\ held[k] # NoVal => held[k].src = k
               /\ ipos[k] = Len(got[k]) + (IF held[k] # NoVal THEN 1 ELSE 0)
               /\ tpc[k] # "none" => k <= opos
               /\ (k <= opos /\ tpc[k] = "none") =>
                     (k = opos /\ opc \in {"call", "add", "go"}))
    /\ [][TaskSteps]_vars

C19_Witness ==
    /\ op \in SpawningOps /\ opos = MaxInner
    /\ \A k \in Streams : tpc[k] = "send" /\ held[k].src = k

\* Drain goroutines started and not yet returned.
Running == {k \in Streams : tpc[k] \in {"recv", "send"}}

\* What a step may do to the WaitGroup and to the join.
JoinStep ==
    /\ wait' > wait =>
          /\ opc = "add" /\ opc' = "go" /\ wait' = wait + 1
          /\ tpc[cur] = "none" /\ tpc' = tpc
    /\ \A k \in Streams :
          (tpc[k] = "none" /\ tpc'[k] # "none") => (opc = "go" /\ wait' = wait /\ wait > 0)
    /\ Joined => (Joined' /\ wait' <= wait)
    /\ (opc # "wait" /\ opc' = "wait") => opc = "recv"
    /\ (opc = "wait" /\ opc' # "wait") => (opc' = "close" /\ wait = 0)
    /\ (opc # "close" /\ opc' = "close") => opc = "wait"
    /\ (opc = "close" /\ opc' # "close") => opc' = "end"
    /\ opc = "end" => opc' = "end"

JoinSteps == op \in SpawningOps => JoinStep

\* C20: in every fan-in operator with a WaitGroup (Flatten, FlattenUntil,
\* Bind, BindUntil) the counter is never negative and
\* is the number of drain goroutines registered and not yet returned (those
\* running and the one the go statement is about to start); it goes up only
\* by wait.Add(1) in the outer loop, before the goroutine it registers
\* starts and before wait.Wait(); once the outer goroutine is at wait.Wait()
\* nothing is registered; wait.Wait() is entered from the outer loop only,
\* left only with the counter at 0 and towards close(out), and never
\* entered again; close(out) is reached only by way of wait.Wait().
C20_JoinBarrier ==
    /\ [](op \in SpawningOps =>
            /\ ~panicked
            /\ wait >= 0
            /\ wait = Cardinality(Running) + (IF opc = "go" THEN 1 ELSE 0)
            /\ Joined => \A k \in Streams : tpc[k] = "none" => k > opos)
    /\ [][JoinSteps]_vars

C20_Witness ==
    /\ op \in SpawningOps /\ opc = "wait" /\ wait = MaxInner
    /\ Cardinality(Running) = MaxInner

CancelFanIn == {"FlattenUntil", "BindUntil"}

\* What a step may do to a drain goroutine that holds a value, and how a
\* drain goroutine may return.
TransferStep(k) ==
    /\ (tpc[k] = "send" /\ tpc'[k] # "send") =>
          /\ tpc'[k] = "recv" /\ held'[k] = NoVal
          /\ got'[held[k].src] = Append(got[held[k].src], held[k].idx)
    /\ (tpc[k] = "send" /\ tpc'[k] = "send") => held'[k] = held[k]
    /\ (tpc[k] # "done" /\ tpc'[k] = "done") => (tpc[k] = "recv" /\ held[k] = NoVal)

TransferSteps == op \in CancelFanIn => \A k \in Streams : TransferStep(k)

\* C21: in FlattenUntil and BindUntil a drain goroutine holds a value
\* exactly while it is at its send, a returned goroutine holds none, the
\* only step out of the send is the delivery of the value held, and a
\* goroutine returns only from its receive, holding nothing; with and
\* without cancellation.
C21_NoAbortMidTransfer ==
    /\ [](op \in CancelFanIn =>
            \A k \in Streams :
               /\ (held[k] # NoVal) <=> (tpc[k] = "send")
               /\ tpc[k] = "done" => ipos[k] = Len(got[k]))
    /\ [][TransferSteps]_vars

\* The value in flight was delivered after cancellation and the goroutine
\* then returned on done, its inner stream not at its end.
C21_Witness ==
    /\ op \in CancelFanIn /\ done
    /\ \E k \in Streams :
          /\ tpc[k] = "done" /\ Len(got[k]) = 1 /\ ipos[k] = 1 /\ ilen[k] > 1
          /\ \E j \in Streams : tpc[j] = "send" /\ held[j] # NoVal

\* C22: in every reachable state of FlattenUntil and BindUntil, cancelled or
\* not, the values delivered from each inner stream are the first values of
\* that stream in order, and the values taken from it are those delivered
\* and at most one more, the one its goroutine holds.
C22_PrefixUnderCancel ==
    op \in CancelFanIn =>
        \A k \in Streams :
           /\ got[k] = FirstN(Len(got[k]))
           /\ Len(got[k]) <= ilen[k]
           /\ ipos[k] - Len(got[k]) \in {0, 1}
           /\ ipos[k] = Len(got[k]) + 1 => held[k] = [src |-> k, idx |-> ipos[k]]

C22_Witness ==
    /\ op \in CancelFanIn /\ done
    /\ \E k \in Streams :
          /\ Len(got[k]) = 1 /\ ipos[k] = 2 /\ tpc[k] = "send"
          /\ \E j \in Streams : tpc[j] = "done" /\ Len(got[j]) < ilen[j]

BindOps == {"Bind", "BindUntil"}

\* A step that invokes f: taken by the outer goroutine at inner := f(value),
\* for the item it received last, and no step of a drain goroutine.
TransformStep ==
    fcalls' # fcalls =>
        /\ opc = "call" /\ opc' = "add"
        /\ fcalls' = fcalls + 1 /\ fcalls' = opos
        /\ val = SrcValue(opos) /\ cur' = F(val)
        /\ tpc' = tpc /\ ipos' = ipos /\ held' = held /\ got' = got /\ wait' = wait

TransformSteps == op \in BindOps => TransformStep

\* C23: in Bind and BindUntil f has been invoked once for every item
\* received but the one the outer goroutine is about to invoke it for; every
\* invocation is the step of the outer goroutine at inner := f(value), for
\* the item received last, so the invocations are in input order and one at
\* a time, and no step of a drain goroutine invokes f.
C23_TransformSequential ==
    /\ [](op \in BindOps =>
            /\ fcalls = opos - (IF opc = "call" THEN 1 ELSE 0)
            /\ opc = "call" => val = SrcValue(opos))
    /\ [][TransformSteps]_vars

\* f is about to be invoked for the second item while the drain goroutine
\* of the first is at its send.
C23_Witness ==
    /\ op \in BindOps /\ opc = "call" /\ opos = 2 /\ fcalls = 1
    /\ tpc[1] = "send"

\* The goroutines of the cancelled pipeline that have returned.
IntRangeReturned == srcClosed
MapReturned == opc = "end"
JustReturned(j) == down.iclosed[j]
DrainReturned(j) == down.tpc[j] \in {"none", "done"}
FlattenUntilReturned == down.opc = "end"

AllReturned ==
    /\ IntRangeReturned /\ MapReturned /\ FlattenUntilReturned
    /\ \A j \in TestStreams : DrainReturned(j) /\ (j <= fcalls => JustReturned(j))

\* C24: in FlattenUntil(done, Map(src, Just)), once the consumer has
\* cancelled and the output is closed, every goroutine of the pipeline
\* eventually returns: IntRange, Map, FlattenUntil, the drain goroutines
\* and the goroutine of every Just that Map has called.
C24_NoLeakedTasks ==
    (down.op = "FlattenUntil" /\ down.done /\ down.nclose > 0) ~> AllReturned

\* What a step of Take(ch, 0) is, and what a step that closes the input is.
TakeFrameStep ==
    /\ (count = 0 /\ opc' # opc) =>
          (opc = "init" /\ opc' = "end" /\ nclose' = 1 /\ opos' = 0 /\ got' = got)
    /\ srcClosed' # srcClosed =>
          (opc' = opc /\ opos' = opos /\ seen' = seen /\ nclose' = nclose /\ got' = got)

TakeFrameSteps == op = "Take" => TakeFrameStep

\* C25: for count > 0, Take(ch, count) has received at most count values
\* from ch, at most one more than it has counted as delivered, and once it
\* has counted count it is at its return; Take(ch, 0) has received nothing
\* and its only step closes the output; no step of Take closes ch, which
\* is closed only by its producer.
C25_TakeNoOverRead ==
    /\ []((op = "Take" /\ count > 0) =>
            /\ opos <= count
            /\ opos - seen \in {0, 1}
            /\ seen = count => opc \in {"close", "end"})
    /\ []((op = "Take" /\ count = 0) =>
            (opos = 0 /\ got[0] = <<>> /\ opc \in {"init", "end"}))
    /\ [][TakeFrameSteps]_vars

\* The quota is met and the output closed with a further value waiting in
\* ch, unread, and ch still open.
C25_Witness ==
    /\ op = "Take" /\ count > 0 /\ count < nsrc /\ OutClosed
    /\ opos = count /\ Len(got[0]) = count /\ ~srcClosed

====
